---- MODULE Spec2Model ----
(***************************************************************************)
(* Wikipedia duplicated-citations merger                                   *)
(* (src/wikipedia_duplicated_citations_merger.py).                         *)
(*                                                                         *)
(* Text is a TLA+ string; offsets are 0-based as in Python, so s[a:b] is   *)
(* Slice(s, a, b).  The regular expressions are modelled by the matching   *)
(* procedure they denote.  Four specifications share the variables:        *)
(*   Spec      merge (get_duplicated_refs, then the rewrite loop), and     *)
(*             merge applied again to its own output;                      *)
(*   SpecFind  find_all_matches of the test suite: the scan loop alone;    *)
(*   SpecDB    the CitationDatabase methods called in any order;           *)
(*   SpecMenu  menu(prompt, default, options) on one line of input.        *)
(***************************************************************************)
EXTENDS Integers, Sequences, FiniteSets

VARIABLES
    article,        \* merge's argument (find_all_matches's text)
    run,            \* 1 for merge(article), 2 for merge of that output, ...
    pc,             \* position in the running function
    idx,            \* the scan offset
    shortnames,     \* CitationDatabase.shortnames: payload -> short-name
    result,         \* get_duplicated_refs's result / merge's duplicated_refs
    seen,           \* merge's seen
    new_article,    \* merge's new_article: a list of strings
    merge_count,    \* merge's merge_count
    res,            \* find_all_matches's res: the list of matches
    ret,            \* what the last CitationDatabase call or menu returned/raised
    line,           \* the line input('> ') returns in menu
    default,        \* menu's default
    noptions        \* len(options) in menu

vars == << article, run, pc, idx, shortnames, result, seen, new_article,
           merge_count, res, ret, line, default, noptions >>

(***************************************************************************)
(* Bounds of the model.                                                    *)
(***************************************************************************)
\* An article is the concatenation of at most MaxPieces pieces.
MaxPieces == 3
\* merge is applied at most MaxRuns times in a row (to its own output).
MaxRuns == 2
\* menu is called with at most MaxOptions options.
MaxOptions == 3

(***************************************************************************)
(* Strings.                                                                *)
(***************************************************************************)
\* Python's s[a:b] for 0 <= a, b (clamped to the string as Python does).
Slice(s, a, b) ==
    LET hi == IF b > Len(s) THEN Len(s) ELSE b
    IN  IF a >= hi THEN "" ELSE SubSeq(s, a + 1, hi)

\* Python's s[i] for 0 <= i < len(s).
CharAt(s, i) == SubSeq(s, i + 1, i + 1)

\* Python's s.find(sub, start): the least offset >= start where sub occurs, or -1.
RECURSIVE find(_, _, _)
find(s, sub, start) ==
    IF start + Len(sub) > Len(s) THEN -1
    ELSE IF SubSeq(s, start + 1, start + Len(sub)) = sub THEN start
    ELSE find(s, sub, start + 1)

\* ''.join(list)
RECURSIVE join(_)
join(list) == IF list = << >> THEN "" ELSE Head(list) \o join(Tail(list))

Digits == {"0", "1", "2", "3", "4", "5", "6", "7", "8", "9"}

Letters ==
    {"a", "b", "c", "d", "e", "f", "g", "h", "i", "j", "k", "l", "m",
     "n", "o", "p", "q", "r", "s", "t", "u", "v", "w", "x", "y", "z",
     "A", "B", "C", "D", "E", "F", "G", "H", "I", "J", "K", "L", "M",
     "N", "O", "P", "Q", "R", "S", "T", "U", "V", "W", "X", "Y", "Z"}

\* \w on ASCII text.
WordChars == Letters \cup Digits \cup {"_"}

\* \s on ASCII text (the vertical tab cannot be written in a TLA+ string).
WhiteSpace == {" ", "\t", "\n", "\r", "\f"}

\* REF_PATTERN = <ref\b(?P<name>[^>]*)(?<!/)>(?P<pay>.*?)</ref> with re.DOTALL.
\* A match is [start, end, name, pay]; NoMatch stands for None.
NoMatch == [start |-> -1, end |-> -1, name |-> "", pay |-> ""]

Matched(ref) == ref.start >= 0

\* A faulty variant of group: the tag rebuilt from its payload, attributes lost.
group_from_payload(text, ref) == "<ref>" \o ref.pay \o "</ref>"

\* ref.group(): the matched text.
group(text, ref) == Slice(text, ref.start, ref.end)

\* A faulty variant of PayloadEnd: a greedy payload, up to the last </ref>.
PayloadEnd_greedy(text, from) ==
    LET ends == { i \in from..(Len(text) - 6) : Slice(text, i, i + 6) = "</ref>" }
    IN  IF ends = {} THEN -1 ELSE CHOOSE i \in ends : \A j \in ends : j <= i

\* The payload is the shortest run that lets </ref> match: it ends at the first </ref>.
PayloadEnd(text, from) == find(text, "</ref>", from)

\* A faulty variant of OpeningOk: the lookbehind left out.
OpeningOk_any(text, gt) == TRUE

\* (?<!/)> : the character before the opening > is not a slash.
OpeningOk(text, gt) == CharAt(text, gt - 1) # "/"

\* The pattern tried at offset p.  The run [^>] is greedy and must be followed by >,
\* so it takes everything up to the first >; no shorter run can be followed
\* by > and backtracking finds nothing else.
REF_PATTERN_match(text, p) ==
    IF Slice(text, p, p + 4) # "<ref" THEN NoMatch
    ELSE IF p + 4 < Len(text) /\ CharAt(text, p + 4) \in WordChars THEN NoMatch
    ELSE LET gt == find(text, ">", p + 4) IN
         IF gt = -1 THEN NoMatch
         ELSE IF ~OpeningOk(text, gt) THEN NoMatch
         ELSE LET close == PayloadEnd(text, gt + 1) IN
              IF close = -1 THEN NoMatch
              ELSE [start |-> p, end |-> close + 6,
                    name |-> Slice(text, p + 4, gt),
                    pay |-> Slice(text, gt + 1, close)]

\* REF_PATTERN.search(text, pos): the match at the least offset >= pos.
RECURSIVE REF_PATTERN_search(_, _)
REF_PATTERN_search(text, pos) ==
    LET p == find(text, "<ref", pos) IN
    IF p = -1 THEN NoMatch
    ELSE LET m == REF_PATTERN_match(text, p) IN
         IF Matched(m) THEN m ELSE REF_PATTERN_search(text, p + 1)

\* NAME_ATTR_PATTERN = name\s*=\s*(\w+|"[^"]*?") with re.DOTALL.
\* A match is [found, group1]; NoName stands for None.
NoName == [found |-> FALSE, group1 |-> ""]

RECURSIVE skip_space(_, _)
skip_space(s, i) ==
    IF i < Len(s) /\ CharAt(s, i) \in WhiteSpace THEN skip_space(s, i + 1) ELSE i

RECURSIVE word_end(_, _)
word_end(s, i) ==
    IF i < Len(s) /\ CharAt(s, i) \in WordChars THEN word_end(s, i + 1) ELSE i

\* The pattern tried at offset p.  The space runs are greedy; giving a space back never
\* helps, as a space is neither =, a word character nor a quote.
NAME_ATTR_PATTERN_match(s, p) ==
    IF Slice(s, p, p + 4) # "name" THEN NoName
    ELSE LET e == skip_space(s, p + 4) IN
         IF e >= Len(s) \/ CharAt(s, e) # "=" THEN NoName
         ELSE LET v == skip_space(s, e + 1) IN
              IF v >= Len(s) THEN NoName
              ELSE IF CharAt(s, v) \in WordChars
                   THEN [found |-> TRUE, group1 |-> Slice(s, v, word_end(s, v))]
              ELSE IF CharAt(s, v) = "\""
                   THEN LET q == find(s, "\"", v + 1) IN
                        IF q = -1 THEN NoName
                        ELSE [found |-> TRUE, group1 |-> Slice(s, v, q + 1)]
              ELSE NoName

\* NAME_ATTR_PATTERN.search(s)
RECURSIVE NAME_ATTR_PATTERN_search_from(_, _)
NAME_ATTR_PATTERN_search_from(s, pos) ==
    LET p == find(s, "name", pos) IN
    IF p = -1 THEN NoName
    ELSE LET m == NAME_ATTR_PATTERN_match(s, p) IN
         IF m.found THEN m ELSE NAME_ATTR_PATTERN_search_from(s, p + 1)

NAME_ATTR_PATTERN_search(s) == NAME_ATTR_PATTERN_search_from(s, 0)

\* s.strip('"')
RECURSIVE strip_quotes(_)
strip_quotes(s) ==
    IF Len(s) > 0 /\ CharAt(s, 0) = "\"" THEN strip_quotes(Slice(s, 1, Len(s)))
    ELSE IF Len(s) > 0 /\ CharAt(s, Len(s) - 1) = "\""
         THEN strip_quotes(Slice(s, 0, Len(s) - 1))
    ELSE s

(***************************************************************************)
(* generate_short_name                                                     *)
(***************************************************************************)
\* md5(payload.encode()).hexdigest()[:11], tabulated for the payloads of the
\* model's articles (only the first 11 digits can reach name[:11]).
md5_hexdigest(payload) ==
    CASE
       payload = "" -> "d41d8cd98f0"
    [] payload = "+" -> "26b17225b62"
    [] payload = "1" -> "c4ca4238a0b"
    [] payload = "a" -> "0cc175b9c0f"
    [] payload = "b" -> "92eb5ffee6a"
    [] payload = "x" -> "9dd4e461268"
    [] payload = "<ref>1" -> "d0ac71c3778"
    [] payload = "<ref>a" -> "d58c136043a"
    [] payload = "<ref xb" -> "15f22c7a6f5"
    [] payload = "content 1" -> "9297ab3fbd5"
    [] payload = "content 2" -> "6685cd62b95"
    [] payload = "content 3" -> "bffd51760cd"
    [] payload = "content 4" -> "d5f2c23b4e2"
    [] payload = "content N1" -> "bdc191ba5ac"
    [] payload = "content N3" -> "52d657156f8"
    [] payload = "<ref x<ref>1" -> "f2fef84ae62"
    [] payload = "<ref x<ref>a" -> "83246f7dd7f"
    [] payload = "<ref name=N>a" -> "a21fea5ea33"
    [] payload = "<ref name=N />b" -> "05a7005db8e"
    [] payload = "a<ref name=N />" -> "84658bdcdb3"
    [] payload = "<ref name = \"N\">1" -> "bba561be8b6"
    [] payload = "<ref x<ref name=N>a" -> "b2859d9dc1e"
    [] payload = "<ref name=N /><ref>1" -> "af868e22d3e"
    [] payload = "<ref name=N /><ref>a" -> "c2b91c787cc"
    [] payload = "<ref>a<ref name=N />" -> "3582e5df340"
    [] payload = "<ref name=a0cc175b9c0>1" -> "d6fad1baab9"
    [] payload = "<ref x<ref name = \"N\">1" -> "6be7ebc00d1"
    [] payload = "<ref x<ref>a<ref name=N />" -> "05f18fe6648"
    [] payload = "<ref name=N /><ref name=N>a" -> "8269dca3dcd"
    [] payload = "<ref x<ref name=a0cc175b9c0>1" -> "a8488cb98fd"
    [] payload = "<ref name=N /><ref name = \"N\">1" -> "0a6420639f0"
    [] payload = "<ref name=N /><ref>a<ref name=N />" -> "c6a292ba15d"
    [] payload = "<ref name=N /><ref name=a0cc175b9c0>1" -> "3d2f1d96d18"
    [] OTHER -> "???????????"

\* The payload holds nothing URL_PATTERN, TEMPLATE_NAMES or TEMPLATE_PARAMS
\* could match: no "http", no "ite " and no "|".
Plain(payload) ==
    /\ find(payload, "http", 0) = -1
    /\ find(payload, "ite ", 0) = -1
    /\ find(payload, "|", 0) = -1

\* TEMPLATE_PARAMS.sub('', TEMPLATE_NAMES.sub('', URL_PATTERN.sub('', payload))):
\* on a Plain payload the three substitutions find nothing to remove.  The
\* model's payloads are all Plain; any other is outside the model.
strip_boilerplate(payload) == IF Plain(payload) THEN payload ELSE "|unmodelled|"

\* ''.join(re.findall(r'\w', s))
RECURSIVE word_chars(_)
word_chars(s) ==
    IF s = "" THEN ""
    ELSE (IF CharAt(s, 0) \in WordChars THEN CharAt(s, 0) ELSE "")
         \o word_chars(Slice(s, 1, Len(s)))

StemLen == 8
NameLen == 11

generate_short_name(payload) ==
    LET words == word_chars(strip_boilerplate(payload))
        name  == Slice(words, 0, StemLen) \o md5_hexdigest(payload)
    IN  (IF CharAt(name, 0) \in Digits THEN "_" ELSE "") \o Slice(name, 0, NameLen)

(***************************************************************************)
(* class CitationDatabase: the dict shortnames as a function.              *)
(***************************************************************************)
EmptyDb == [p \in {} |-> ""]

\* self.shortnames.values()
values(db) == {db[p] : p \in DOMAIN db}

\* A faulty variant of add_allowed: the assertion left out.
add_unchecked(db, shortname) == TRUE

\* The assertion of add: shortname not in self.shortnames.values().
add_allowed(db, shortname) == shortname \notin values(db)

\* self.shortnames[payload] = shortname
add(db, payload, shortname) ==
    [p \in DOMAIN db \cup {payload} |-> IF p = payload THEN shortname ELSE db[p]]

has(db, payload) == payload \in DOMAIN db

get_shortname(db, payload) == IF has(db, payload) THEN db[payload] ELSE ""

(***************************************************************************)
(* get_duplicated_refs and merge: the pieces of the two loops.             *)
(***************************************************************************)
\* A faulty variant of parse_or_generate: the declared name ignored.
generate_always(name_str, payload) == generate_short_name(payload)

\* "parse or generate shortname"
parse_or_generate(name_str, payload) ==
    LET n == NAME_ATTR_PATTERN_search(name_str)
    IN  IF n.found THEN strip_quotes(n.group1) ELSE generate_short_name(payload)

has_name_attribute(ref) == NAME_ATTR_PATTERN_search(ref.name).found

\* A faulty variant of segment: the segment starts one character late.
segment_off_by_one(text, from, to) == Slice(text, from + 1, to)

\* article[idx:ref.start()], "the previous segment"
segment(text, from, to) == Slice(text, from, to)

\* A faulty variant of back_reference: the slash left out, an empty full tag.
back_reference_unclosed(shortname) == "<ref name=\"" \o shortname \o "\"></ref>"

\* '<ref name="{}" />'.format(shortname)
back_reference(shortname) == "<ref name=\"" \o shortname \o "\" />"

\* '<ref name="{}">{}</ref>'.format(shortname, payload)
named_tag(shortname, payload) ==
    "<ref name=\"" \o shortname \o "\">" \o payload \o "</ref>"

\* What the rewrite loop emits for the first occurrence of a duplicated payload.
defining_tag(text, ref, db) ==
    IF ~has_name_attribute(ref)
    THEN named_tag(get_shortname(db, ref.pay), ref.pay)
    ELSE group(text, ref)

(***************************************************************************)
(* The articles of the model: concatenations of at most MaxPieces pieces.  *)
(***************************************************************************)
Pieces ==
    { "<ref>a</ref>",                  \* no name
      "<ref>1</ref>",                  \* no name; the generated name starts with a digit
      "<ref name=N>a</ref>",           \* unquoted name
      "<ref name = \"N\">1</ref>",     \* quoted name, spaced; the name N on another payload
      "<ref name=N />",                \* self-closing reference
      "b</ref>",                       \* text and a stray end tag
      "<ref>a<ref name=N /></ref>",    \* a self-closing tag inside a payload
      "<ref name=a0cc175b9c0>1</ref>", \* declares the name generated for the payload a
      "<ref x" }                       \* an unfinished start tag

\* The texts made of at most MaxPieces of the given pieces.
Texts(pieces) == { join(t) : t \in UNION { [1..n -> pieces] : n \in 0..MaxPieces } }

Articles == Texts(Pieces)

NoRet == [kind |-> "none", arg |-> "", text |-> "", num |-> 0]

\* The variables a specification does not use.
IdleMerge ==
    /\ run = 1 /\ idx = 0 /\ shortnames = EmptyDb /\ result = {} /\ seen = {}
    /\ new_article = << >> /\ merge_count = 0
IdleFind == res = << >>
IdleMenu == line = "" /\ default = 0 /\ noptions = 0

(***************************************************************************)
(* Spec: merge(article), one loop iteration per step.                      *)
(*   pc = "scan"     in get_duplicated_refs's loop                         *)
(*   pc = "rewrite"  in merge's loop                                       *)
(*   pc = "done"     merge returned (join(new_article), merge_count,       *)
(*                   list(duplicated_refs))                                *)
(*   pc = "error"    merge raised AssertionError (name collision)          *)
(***************************************************************************)
Init ==
    /\ article \in Articles
    /\ pc = "scan"
    /\ IdleMerge /\ IdleFind /\ IdleMenu
    /\ ret = NoRet

\* ref := REF_PATTERN.search(article, idx)
ref == REF_PATTERN_search(article, idx)

\* if db.has(payload): result.add(payload)
ScanDuplicate ==
    /\ pc = "scan"
    /\ LET r == ref IN
        /\ Matched(r)
        /\ has(shortnames, r.pay)
        /\ result' = result \cup {r.pay}
        /\ idx' = r.end
        /\ UNCHANGED << article, run, pc, shortnames, seen, new_article, merge_count,
                        res, ret, line, default, noptions >>

\* else: db.add(payload, shortname), the assertion holding
ScanRegister ==
    /\ pc = "scan"
    /\ LET r == ref IN
        /\ Matched(r)
        /\ ~has(shortnames, r.pay)
        /\ LET shortname == parse_or_generate(r.name, r.pay) IN
            /\ add_allowed(shortnames, shortname)
            /\ shortnames' = add(shortnames, r.pay, shortname)
        /\ idx' = r.end
        /\ UNCHANGED << article, run, pc, result, seen, new_article, merge_count,
                        res, ret, line, default, noptions >>

\* else: db.add(payload, shortname), the assertion failing: merge raises
ScanCollision ==
    /\ pc = "scan"
    /\ LET r == ref IN
        /\ Matched(r)
        /\ ~has(shortnames, r.pay)
        /\ LET shortname == parse_or_generate(r.name, r.pay) IN
            /\ ~add_allowed(shortnames, shortname)
            /\ ret' = [kind |-> "AssertionError", arg |-> r.pay,
                       text |-> shortname, num |-> 0]
        /\ pc' = "error"
        /\ UNCHANGED << article, run, idx, shortnames, result, seen, new_article,
                        merge_count, res, line, default, noptions >>

\* The scan loop ends; merge sets seen, merge_count and idx.
ScanEnd ==
    /\ pc = "scan"
    /\ LET r == ref IN
        /\ ~Matched(r)
        /\ pc' = "rewrite"
        /\ idx' = 0
        /\ seen' = {}
        /\ merge_count' = 0
        /\ UNCHANGED << article, run, shortnames, result, new_article, res, ret,
                        line, default, noptions >>

\* if payload not in duplicated_refs: the occurrence is copied
RewriteUnique ==
    /\ pc = "rewrite"
    /\ LET r == ref IN
        /\ Matched(r)
        /\ r.pay \notin result
        /\ new_article' = new_article \o
                << segment(article, idx, r.start), group(article, r) >>
        /\ idx' = r.end
        /\ UNCHANGED << article, run, pc, shortnames, result, seen, merge_count,
                        res, ret, line, default, noptions >>

\* if payload in seen: a back-reference replaces the occurrence
RewriteBackReference ==
    /\ pc = "rewrite"
    /\ LET r == ref IN
        /\ Matched(r)
        /\ r.pay \in result
        /\ r.pay \in seen
        /\ new_article' = new_article \o
                << segment(article, idx, r.start),
                   back_reference(get_shortname(shortnames, r.pay)) >>
        /\ merge_count' = merge_count + 1
        /\ idx' = r.end
        /\ UNCHANGED << article, run, pc, shortnames, result, seen, res, ret,
                        line, default, noptions >>

\* else: the first occurrence of a duplicated payload
RewriteDefine ==
    /\ pc = "rewrite"
    /\ LET r == ref IN
        /\ Matched(r)
        /\ r.pay \in result
        /\ r.pay \notin seen
        /\ new_article' = new_article \o
                << segment(article, idx, r.start),
                   defining_tag(article, r, shortnames) >>
        /\ seen' = seen \cup {r.pay}
        /\ idx' = r.end
        /\ UNCHANGED << article, run, pc, shortnames, result, merge_count, res, ret,
                        line, default, noptions >>

\* The rewrite loop ends: the last segment, and merge returns.
RewriteEnd ==
    /\ pc = "rewrite"
    /\ LET r == ref IN
        /\ ~Matched(r)
        /\ new_article' = Append(new_article, segment(article, idx, Len(article)))
        /\ pc' = "done"
        /\ UNCHANGED << article, run, idx, shortnames, result, seen, merge_count,
                        res, ret, line, default, noptions >>

\* merge's return value, once pc = "done".
returned_text == join(new_article)

\* merge is called on the text it returned.
MergeAgain ==
    /\ pc = "done"
    /\ run < MaxRuns
    /\ article' = returned_text
    /\ run' = run + 1
    /\ pc' = "scan"
    /\ idx' = 0
    /\ shortnames' = EmptyDb
    /\ result' = {}
    /\ seen' = {}
    /\ new_article' = << >>
    /\ merge_count' = 0
    /\ UNCHANGED << res, ret, line, default, noptions >>

Next ==
    \/ ScanDuplicate
    \/ ScanRegister
    \/ ScanCollision
    \/ ScanEnd
    \/ RewriteUnique
    \/ RewriteBackReference
    \/ RewriteDefine
    \/ RewriteEnd
    \/ MergeAgain

Spec == Init /\ [][Next]_vars

(***************************************************************************)
(* SpecFind: find_all_matches(REF_PATTERN, text) of test_regex.py, the     *)
(* scan loop that get_duplicated_refs and merge both run.                  *)
(***************************************************************************)
\* The texts searched: the articles, also with text and a tag that is no ref tag.
FindPieces == Pieces \cup {"<referen_ce >a</ref>", " x "}

InitFind ==
    /\ article \in Texts(FindPieces)
    /\ pc = "find"
    /\ IdleMerge /\ IdleFind /\ IdleMenu
    /\ ret = NoRet

\* while m := pattern.search(text, idx): res.append(m); idx = m.end()
FindMatch ==
    /\ pc = "find"
    /\ LET m == REF_PATTERN_search(article, idx) IN
        /\ Matched(m)
        /\ res' = Append(res, m)
        /\ idx' = m.end
    /\ UNCHANGED << article, run, pc, shortnames, result, seen, new_article,
                    merge_count, ret, line, default, noptions >>

\* the search finds nothing: return res
FindEnd ==
    /\ pc = "find"
    /\ ~Matched(REF_PATTERN_search(article, idx))
    /\ pc' = "found"
    /\ UNCHANGED << article, run, idx, shortnames, result, seen, new_article,
                    merge_count, res, ret, line, default, noptions >>

NextFind == FindMatch \/ FindEnd

SpecFind == InitFind /\ [][NextFind]_vars

\* find_all_matches as a function of the text: the matches from offset pos on.
RECURSIVE find_all_from(_, _)
find_all_from(text, pos) ==
    LET m == REF_PATTERN_search(text, pos) IN
    IF Matched(m) THEN << m >> \o find_all_from(text, m.end) ELSE << >>

find_all_matches(text) == find_all_from(text, 0)

(***************************************************************************)
(* SpecDB: the methods of one CitationDatabase, called in any order.       *)
(***************************************************************************)
DbPayloads == {"a", "1", "b"}
DbNames == {"N", "M", "a0cc175b9c0", ""}

InitDB ==
    /\ article = ""
    /\ pc = "db"
    /\ IdleMerge /\ IdleFind /\ IdleMenu
    /\ ret = NoRet

\* db.add(payload, shortname), the assertion holding
DbAdd(payload, shortname) ==
    /\ pc = "db"
    /\ add_allowed(shortnames, shortname)
    /\ shortnames' = add(shortnames, payload, shortname)
    /\ ret' = [kind |-> "add", arg |-> payload, text |-> shortname, num |-> 0]
    /\ UNCHANGED << article, run, pc, idx, result, seen, new_article,
                    merge_count, res, line, default, noptions >>

\* db.add(payload, shortname), the assertion failing
DbAddFails(payload, shortname) ==
    /\ pc = "db"
    /\ ~add_allowed(shortnames, shortname)
    /\ ret' = [kind |-> "AssertionError", arg |-> payload, text |-> shortname, num |-> 0]
    /\ UNCHANGED << article, run, pc, idx, shortnames, result, seen, new_article,
                    merge_count, res, line, default, noptions >>

\* db.has(payload)
DbHas(payload) ==
    /\ pc = "db"
    /\ ret' = [kind |-> "has", arg |-> payload,
               text |-> IF has(shortnames, payload) THEN "True" ELSE "False",
               num |-> 0]
    /\ UNCHANGED << article, run, pc, idx, shortnames, result, seen, new_article,
                    merge_count, res, line, default, noptions >>

\* db.get_shortname(payload)
DbGetShortname(payload) ==
    /\ pc = "db"
    /\ ret' = [kind |-> "get_shortname", arg |-> payload,
               text |-> get_shortname(shortnames, payload), num |-> 0]
    /\ UNCHANGED << article, run, pc, idx, shortnames, result, seen, new_article,
                    merge_count, res, line, default, noptions >>

NextDB ==
    \/ \E p \in DbPayloads, s \in DbNames : DbAdd(p, s)
    \/ \E p \in DbPayloads, s \in DbNames : DbAddFails(p, s)
    \/ \E p \in DbPayloads : DbHas(p)
    \/ \E p \in DbPayloads : DbGetShortname(p)

SpecDB == InitDB /\ [][NextDB]_vars

(***************************************************************************)
(* SpecMenu: menu(prompt, default, options) on the line input('> ')        *)
(* returns.  The lines of the model hold no underscore and no non-ASCII    *)
(* digit, the two other things int() accepts.                              *)
(***************************************************************************)
Lines == {"", "1", "2", "3", "4", "5", "0", "-1", "+2", " 2 ", "03", "abc", "1.5", "2x", " ", "-"}

DigitValue(c) ==
    CASE c = "0" -> 0 [] c = "1" -> 1 [] c = "2" -> 2 [] c = "3" -> 3
      [] c = "4" -> 4 [] c = "5" -> 5 [] c = "6" -> 6 [] c = "7" -> 7
      [] c = "8" -> 8 [] c = "9" -> 9

\* s.strip()
RECURSIVE strip_space(_)
strip_space(s) ==
    IF Len(s) > 0 /\ CharAt(s, 0) \in WhiteSpace THEN strip_space(Slice(s, 1, Len(s)))
    ELSE IF Len(s) > 0 /\ CharAt(s, Len(s) - 1) \in WhiteSpace
         THEN strip_space(Slice(s, 0, Len(s) - 1))
    ELSE s

\* The value of a string of decimal digits, most significant first.
RECURSIVE digits_value(_, _)
digits_value(s, acc) ==
    IF s = "" THEN acc
    ELSE digits_value(Slice(s, 1, Len(s)), 10 * acc + DigitValue(CharAt(s, 0)))

AllDigits(s) == Len(s) > 0 /\ \A i \in 0..(Len(s) - 1) : CharAt(s, i) \in Digits

\* int(s) for a str: [ok, value]; ok = FALSE stands for ValueError.
int(s) ==
    LET t    == strip_space(s)
        sign == IF Len(t) > 0 /\ CharAt(t, 0) \in {"+", "-"} THEN CharAt(t, 0) ELSE ""
        body == IF sign = "" THEN t ELSE Slice(t, 1, Len(t))
    IN  IF AllDigits(body)
        THEN [ok |-> TRUE,
              value |-> IF sign = "-" THEN 0 - digits_value(body, 0)
                        ELSE digits_value(body, 0)]
        ELSE [ok |-> FALSE, value |-> 0]

\* int(input('> ') or default): an empty line is falsy, and int(default) is default.
parse_choice(input, dflt) == IF input = "" THEN [ok |-> TRUE, value |-> dflt] ELSE int(input)

\* 1 <= choice <= len(options)
valid_choice(choice, n) == 1 <= choice /\ choice <= n

\* menu is called as main and the tests call it: with options, and a default among them.
InitMenu ==
    /\ article = ""
    /\ pc = "menu"
    /\ IdleMerge /\ IdleFind
    /\ ret = NoRet
    /\ line \in Lines
    /\ noptions \in 1..MaxOptions
    /\ default \in 1..noptions

\* return choice
MenuReturn ==
    /\ pc = "menu"
    /\ LET c == parse_choice(line, default) IN
        /\ c.ok
        /\ valid_choice(c.value, noptions)
        /\ ret' = [kind |-> "return", arg |-> "", text |-> "", num |-> c.value]
    /\ pc' = "menu_done"
    /\ UNCHANGED << article, run, idx, shortnames, result, seen, new_article,
                    merge_count, res, line, default, noptions >>

\* raise SystemExit('Invalid choice!')
MenuExit ==
    /\ pc = "menu"
    /\ LET c == parse_choice(line, default) IN
        /\ c.ok
        /\ ~valid_choice(c.value, noptions)
        /\ ret' = [kind |-> "SystemExit", arg |-> "", text |-> "Invalid choice!", num |-> c.value]
    /\ pc' = "menu_done"
    /\ UNCHANGED << article, run, idx, shortnames, result, seen, new_article,
                    merge_count, res, line, default, noptions >>

\* int() raises ValueError, which menu does not catch
MenuValueError ==
    /\ pc = "menu"
    /\ ~parse_choice(line, default).ok
    /\ ret' = [kind |-> "ValueError", arg |-> "", text |-> line, num |-> 0]
    /\ pc' = "menu_done"
    /\ UNCHANGED << article, run, idx, shortnames, result, seen, new_article,
                    merge_count, res, line, default, noptions >>

NextMenu == MenuReturn \/ MenuExit \/ MenuValueError

SpecMenu == InitMenu /\ [][NextMenu]_vars

(***************************************************************************)
(* get_duplicated_refs and merge as functions of the article, built from   *)
(* the same pieces as the steps of Spec.                                   *)
(***************************************************************************)
\* get_duplicated_refs from offset pos on: [ok, db, result]; ok = FALSE stands
\* for the AssertionError of db.add.
RECURSIVE scan_from(_, _, _, _)
scan_from(text, pos, db, dups) ==
    LET r == REF_PATTERN_search(text, pos) IN
    IF ~Matched(r) THEN [ok |-> TRUE, db |-> db, result |-> dups]
    ELSE IF has(db, r.pay) THEN scan_from(text, r.end, db, dups \cup {r.pay})
    ELSE LET shortname == parse_or_generate(r.name, r.pay) IN
         IF add_allowed(db, shortname)
         THEN scan_from(text, r.end, add(db, r.pay, shortname), dups)
         ELSE [ok |-> FALSE, db |-> db, result |-> dups]

get_duplicated_refs(text) == scan_from(text, 0, EmptyDb, {})

\* merge's loop from offset pos on: [new_article, merge_count].
RECURSIVE rewrite_from(_, _, _, _, _, _, _)
rewrite_from(text, pos, db, dups, sn, out, count) ==
    LET r == REF_PATTERN_search(text, pos) IN
    IF ~Matched(r)
    THEN [new_article |-> Append(out, segment(text, pos, Len(text))),
          merge_count |-> count]
    ELSE LET out1 == Append(out, segment(text, pos, r.start)) IN
         IF r.pay \notin dups
         THEN rewrite_from(text, r.end, db, dups, sn,
                           Append(out1, group(text, r)), count)
         ELSE IF r.pay \in sn
         THEN rewrite_from(text, r.end, db, dups, sn,
                           Append(out1, back_reference(get_shortname(db, r.pay))),
                           count + 1)
         ELSE rewrite_from(text, r.end, db, dups, sn \cup {r.pay},
                           Append(out1, defining_tag(text, r, db)), count)

\* merge(article): [raised, text, merge_count, duplicated_refs]; the list of
\* duplicated refs is given as the set it is made from.
merge(text) ==
    LET s == get_duplicated_refs(text) IN
    IF ~s.ok
    THEN [raised |-> TRUE, text |-> "", merge_count |-> 0, duplicated_refs |-> {}]
    ELSE LET w == rewrite_from(text, 0, s.db, s.result, {}, << >>, 0) IN
         [raised |-> FALSE, text |-> join(w.new_article),
          merge_count |-> w.merge_count, duplicated_refs |-> s.result]

(***************************************************************************)
(* Notions the properties below are stated with.                           *)
(***************************************************************************)
\* The occurrences of the current article, in document order.
occurrences == find_all_matches(article)

Payloads(ms) == { ms[i].pay : i \in 1..Len(ms) }

OccurrencesOf(ms, p) == { i \in 1..Len(ms) : ms[i].pay = p }

FirstOccurrence(ms, p) ==
    CHOOSE i \in OccurrencesOf(ms, p) : \A j \in OccurrencesOf(ms, p) : i <= j

\* The payloads that occur more than once.
Duplicated(ms) == { p \in Payloads(ms) : Cardinality(OccurrencesOf(ms, p)) >= 2 }

UniqueOnly(ms) == Duplicated(ms) = {}

\* The explicit name of an attribute string, quotes stripped: [found, name].
ExplicitName(attrs) ==
    LET n == NAME_ATTR_PATTERN_search(attrs)
    IN  [found |-> n.found, name |-> IF n.found THEN strip_quotes(n.group1) ELSE ""]

\* The short-name a payload gets from its first occurrence.
NameOfFirst(ms, p) ==
    LET first == ms[FirstOccurrence(ms, p)]
        n     == ExplicitName(first.name)
    IN  IF n.found THEN n.name ELSE generate_short_name(p)

\* Two different payloads get the same short-name.
NameCollision(ms) ==
    \E p, q \in Payloads(ms) : p # q /\ NameOfFirst(ms, p) = NameOfFirst(ms, q)

\* The end of the occurrence before the i-th (0 before the first).
EndBefore(ms, i) == IF i = 1 THEN 0 ELSE ms[i - 1].end

\* A self-closing ref tag starts at offset p: <ref, a word boundary, and a
\* first > that a slash precedes.
SelfClosingAt(text, p) ==
    /\ Slice(text, p, p + 4) = "<ref"
    /\ p + 4 < Len(text)
    /\ CharAt(text, p + 4) \notin WordChars
    /\ LET gt == find(text, ">", p + 4) IN gt # -1 /\ CharAt(text, gt - 1) = "/"

\* The offsets >= pos where a self-closing ref tag starts.
RECURSIVE SelfClosingFrom(_, _)
SelfClosingFrom(text, pos) ==
    LET p == find(text, "<ref", pos) IN
    IF p = -1 THEN {}
    ELSE (IF SelfClosingAt(text, p) THEN {p} ELSE {}) \cup SelfClosingFrom(text, p + 1)

SelfClosingTags(text) == SelfClosingFrom(text, 0)

\* The text of the self-closing tag at p, and its attribute string.
TagText(text, p) == Slice(text, p, find(text, ">", p + 4) + 1)
TagAttrs(text, p) == Slice(text, p + 4, find(text, ">", p + 4))

\* Offset p lies inside one of the occurrences ms.
Inside(ms, p) == \E i \in 1..Len(ms) : ms[i].start <= p /\ p < ms[i].end

\* The self-closing tags outside every occurrence.
TopLevelTags(text) ==
    LET ms == find_all_matches(text)
    IN  { p \in SelfClosingTags(text) : ~Inside(ms, p) }

\* The payload a short-name denotes in a text: that of the first occurrence
\* declaring the name; [defined, pay].
Resolve(text, name) ==
    LET ms == find_all_matches(text)
        ds == { i \in 1..Len(ms) : ExplicitName(ms[i].name) = [found |-> TRUE, name |-> name] }
    IN  IF ds = {} THEN [defined |-> FALSE, pay |-> ""]
        ELSE [defined |-> TRUE, pay |-> ms[CHOOSE i \in ds : \A j \in ds : i <= j].pay]

\* What the top-level self-closing tag at p denotes.
Denotes(text, p) == Resolve(text, ExplicitName(TagAttrs(text, p)).name)

\* How many tags and references of a text denote the payload v.
DenotationCount(text, v) ==
    LET ms == find_all_matches(text) IN
    Cardinality({ i \in 1..Len(ms) : [defined |-> TRUE, pay |-> ms[i].pay] = v })
    + Cardinality({ p \in TopLevelTags(text) : Denotes(text, p) = v })

Denotations(text) ==
    LET ms == find_all_matches(text) IN
    { [defined |-> TRUE, pay |-> ms[i].pay] : i \in 1..Len(ms) }
    \cup { Denotes(text, p) : p \in TopLevelTags(text) }

\* How many of the offsets ps of a text start the self-closing tag t.
TagCount(text, ps, t) == Cardinality({ p \in ps : TagText(text, p) = t })

Finished == pc \in {"done", "error"}

Unchanged == returned_text = article /\ merge_count = 0 /\ result = {}

(***************************************************************************)
(* C1.  As claimed: merge returns an article without duplicated payloads   *)
(* unchanged, with merge_count 0 and no duplicates, also when two          *)
(* different payloads declare the same name.                               *)
(***************************************************************************)
C1_RoundTripAsClaimed ==
    (Finished /\ UniqueOnly(occurrences)) => (pc = "done" /\ Unchanged)

(***************************************************************************)
(* C1, amended.  An article without duplicated payloads in which no two    *)
(* payloads get the same short-name is returned unchanged, with            *)
(* merge_count 0 and no duplicates; when two payloads get the same         *)
(* short-name merge raises the name-collision error instead.               *)
(***************************************************************************)
C1_RoundTripUniqueOnly ==
    (Finished /\ UniqueOnly(occurrences)) =>
        IF NameCollision(occurrences) THEN pc = "error"
        ELSE pc = "done" /\ Unchanged

\* merge returned an article of several distinct payloads, one with a name.
C1_Witness ==
    /\ pc = "done" /\ run = 1
    /\ UniqueOnly(occurrences)
    /\ Len(occurrences) >= 2
    /\ \E i \in 1..Len(occurrences) : ExplicitName(occurrences[i].name).found
    /\ Unchanged

(***************************************************************************)
(* C2.  Idempotence: merge applied to the text merge returned does not     *)
(* raise and returns that text unchanged, with merge_count 0 and no        *)
(* duplicates.                                                             *)
(***************************************************************************)
C2_Idempotent ==
    run >= 2 => /\ pc # "error"
                /\ pc = "done" => Unchanged

\* The second merge returned, on a text that holds a back-reference and a named
\* defining tag the first merge emitted.
C2_Witness ==
    /\ run = 2 /\ pc = "done"
    /\ find(article, "<ref name=\"a0cc175b9c0\">a</ref>", 0) # -1
    /\ find(article, "<ref name=\"a0cc175b9c0\" />", 0) # -1

(***************************************************************************)
(* C3.  Content preservation, as claimed: after merge every payload is     *)
(* denoted by as many tags and references as before, a reference denoting  *)
(* the payload of the tag that declares its name; no reference that        *)
(* denoted a payload is left without one.                                  *)
(***************************************************************************)
C3_ContentPreserved ==
    (pc = "done" /\ run = 1) =>
        \A v \in Denotations(article) \cup Denotations(returned_text) :
            DenotationCount(article, v) = DenotationCount(returned_text, v)

(***************************************************************************)
(* C4.  As claimed: no occurrence starts at a self-closing tag, and every  *)
(* self-closing tag of the article is in the text merge returns.           *)
(***************************************************************************)
C4_SelfClosingAsClaimed ==
    /\ (pc \in {"scan", "rewrite"} /\ Matched(ref)) => ~SelfClosingAt(article, ref.start)
    /\ pc = "done" =>
        \A p \in SelfClosingTags(article) :
            TagCount(article, SelfClosingTags(article), TagText(article, p))
                <= TagCount(returned_text, SelfClosingTags(returned_text), TagText(article, p))

(***************************************************************************)
(* C4, amended.  No occurrence starts at a self-closing tag, and every     *)
(* self-closing tag of the article that lies outside every occurrence is,  *)
(* unaltered and outside every occurrence, in the text merge returns.  (A  *)
(* self-closing tag inside a payload goes with the payload when a          *)
(* back-reference replaces the occurrence.)                                *)
(***************************************************************************)
C4_SelfClosingUntouched ==
    /\ (pc \in {"scan", "rewrite"} /\ Matched(ref)) => ~SelfClosingAt(article, ref.start)
    /\ pc = "done" =>
        \A p \in TopLevelTags(article) :
            TagCount(article, TopLevelTags(article), TagText(article, p))
                <= TagCount(returned_text, TopLevelTags(returned_text), TagText(article, p))

\* merge returned, having merged, an article with a self-closing tag.
C4_Witness ==
    /\ pc = "done" /\ run = 1
    /\ merge_count >= 1
    /\ TopLevelTags(article) # {}

(***************************************************************************)
(* C5.  Tag matching: the spans found are non-empty, increasing and do not *)
(* overlap; each starts at <ref followed by a word boundary, its opening > *)
(* is the first > and no slash precedes it, and it ends with the first     *)
(* </ref> after the opening >, so the payload holds no </ref>; in          *)
(* <ref>a</ref>b</ref> only the first tag is matched.                      *)
(***************************************************************************)
C5_TagMatching ==
    /\ \A i \in 1..Len(res) :
        LET m  == res[i]
            gt == m.start + 4 + Len(m.name)
        IN  /\ 0 <= m.start /\ m.start < m.end /\ m.end <= Len(article)
            /\ EndBefore(res, i) <= m.start
            /\ Slice(article, m.start, m.start + 4) = "<ref"
            /\ CharAt(article, m.start + 4) \notin WordChars
            /\ m.name = Slice(article, m.start + 4, gt)
            /\ find(m.name, ">", 0) = -1
            /\ CharAt(article, gt) = ">"
            /\ CharAt(article, gt - 1) # "/"
            /\ m.pay = Slice(article, gt + 1, m.end - 6)
            /\ Slice(article, m.end - 6, m.end) = "</ref>"
            /\ find(m.pay, "</ref>", 0) = -1
            /\ m.end = find(article, "</ref>", gt + 1) + 6
    /\ (pc = "found" /\ article = "<ref>a</ref>b</ref>") =>
            res = << [start |-> 0, end |-> 12, name |-> "", pay |-> "a"] >>
    /\ (pc = "found" /\ article = "<referen_ce >a</ref>") => res = << >>

\* All matches are found in a text with two occurrences and a stray end tag.
C5_Witness ==
    /\ pc = "found"
    /\ Len(res) = 2
    /\ Slice(article, idx, Len(article)) = "b</ref>"

\* No two payloads of a registry have the same short-name.
ShortNamesUnique(db) == \A p, q \in DOMAIN db : db[p] = db[q] => p = q

(***************************************************************************)
(* C6.  Registry uniqueness: at every step of any sequence of add, has and *)
(* get_shortname calls no two payloads have the same short-name; add fails *)
(* when the short-name belongs to another payload, and a failed add leaves *)
(* the mapping as it was.                                                  *)
(***************************************************************************)
C6_RegistryUnique ==
    [][ /\ ShortNamesUnique(shortnames')
        /\ ret'.kind \in {"add", "AssertionError"} =>
            /\ (\E q \in DOMAIN shortnames : q # ret'.arg /\ shortnames[q] = ret'.text)
                   => ret'.kind = "AssertionError"
            /\ ret'.kind = "AssertionError" => shortnames' = shortnames
            /\ ret'.kind = "add" => shortnames'[ret'.arg] = ret'.text
      ]_vars

\* An add has failed on a registry of two payloads.
C6_Witness ==
    /\ pc = "db"
    /\ ret.kind = "AssertionError"
    /\ Cardinality(DOMAIN shortnames) >= 2
    /\ ret.arg \notin DOMAIN shortnames

(***************************************************************************)
(* C7.  A short-name collision is fatal: merge reaches its rewrite loop    *)
(* only if no two payloads get the same short-name; otherwise it raises    *)
(* the assertion error during the scan, with nothing rewritten, counted or *)
(* returned.                                                               *)
(***************************************************************************)
C7_CollisionAborts ==
    /\ pc \in {"rewrite", "done"} => ~NameCollision(occurrences)
    /\ pc = "error" =>
        /\ NameCollision(occurrences)
        /\ ret.kind = "AssertionError"
        /\ new_article = << >> /\ merge_count = 0 /\ seen = {}

\* merge raised because a declared name is the name generated for another payload.
C7_Witness ==
    /\ pc = "error"
    /\ ret.text = "a0cc175b9c0"

(***************************************************************************)
(* C8.  Text outside citations is preserved: what merge has emitted is,    *)
(* for each occurrence in order, the text between the previous occurrence  *)
(* and it, verbatim, then one piece for the occurrence, which is the       *)
(* occurrence itself unless its payload is duplicated; and at the end the  *)
(* text after the last occurrence.                                         *)
(***************************************************************************)
C8_OutsidePreserved ==
    pc \in {"rewrite", "done"} =>
        LET ms == occurrences
            n  == Len(ms)
            dups == Duplicated(ms)
        IN  /\ Len(new_article) <= 2 * n + 1
            /\ pc = "done" <=> Len(new_article) = 2 * n + 1
            /\ \A i \in 1..n :
                /\ 2 * i - 1 <= Len(new_article) =>
                        new_article[2 * i - 1] = Slice(article, EndBefore(ms, i), ms[i].start)
                /\ (2 * i <= Len(new_article) /\ ms[i].pay \notin dups) =>
                        new_article[2 * i] = Slice(article, ms[i].start, ms[i].end)
            /\ pc = "done" =>
                    new_article[2 * n + 1] = Slice(article, EndBefore(ms, n + 1), Len(article))

\* merge returned, having replaced an occurrence that text precedes.
C8_Witness ==
    /\ pc = "done" /\ run = 1
    /\ merge_count >= 1
    /\ \E k \in 1..(Len(new_article) - 1) : k % 2 = 1 /\ new_article[k] # ""

(***************************************************************************)
(* C10.  Definition before back-reference: the short-name S of a           *)
(* duplicated payload P is that of P's first occurrence (its explicit      *)
(* name, quotes stripped, else the generated name); merge emits that       *)
(* occurrence as a full tag named S with payload P (itself if it had a     *)
(* name, else <ref name="S">P</ref>) and every later occurrence as         *)
(* <ref name="S" />, and in the returned text the name S denotes P.        *)
(***************************************************************************)
C10_DefinitionBeforeReference ==
    pc = "done" =>
        LET ms == occurrences IN
        \A p \in Duplicated(ms) :
            LET f     == FirstOccurrence(ms, p)
                n     == ExplicitName(ms[f].name)
                S     == IF n.found THEN n.name ELSE generate_short_name(p)
                def   == new_article[2 * f]
                d     == REF_PATTERN_match(def, 0)
            IN  /\ def = IF n.found THEN Slice(article, ms[f].start, ms[f].end)
                         ELSE "<ref name=\"" \o S \o "\">" \o p \o "</ref>"
                /\ Matched(d) /\ d.end = Len(def) /\ d.pay = p
                /\ ExplicitName(d.name) = [found |-> TRUE, name |-> S]
                /\ \A i \in OccurrencesOf(ms, p) \ {f} :
                        /\ f < i
                        /\ new_article[2 * i] = "<ref name=\"" \o S \o "\" />"
                /\ Resolve(returned_text, S) = [defined |-> TRUE, pay |-> p]

\* merge returned; a duplicated payload had no name first and a name later.
C10_Witness ==
    /\ pc = "done" /\ run = 1
    /\ \E p \in Duplicated(occurrences) :
        /\ ~ExplicitName(occurrences[FirstOccurrence(occurrences, p)].name).found
        /\ \E i \in OccurrencesOf(occurrences, p) : ExplicitName(occurrences[i].name).found

(***************************************************************************)
(* C9.  menu: every call returns a choice among the options or raises      *)
(* SystemExit; an empty line returns the default, a line naming an option  *)
(* returns it, and any other selection raises SystemExit.                  *)
(***************************************************************************)
C9_MenuReturnsOrExits ==
    pc = "menu_done" =>
        /\ ret.kind \in {"return", "SystemExit"}
        /\ ret.kind = "return" => (1 <= ret.num /\ ret.num <= noptions)
        /\ line = "" => (ret.kind = "return" /\ ret.num = default)
        /\ \A k \in 1..noptions : (int(line).ok /\ int(line).value = k) =>
                (ret.kind = "return" /\ ret.num = k)
        /\ (int(line).ok /\ ~(1 <= int(line).value /\ int(line).value <= noptions)) =>
                (ret.kind = "SystemExit" /\ ret.text # "")

====
